---- MODULE Spec2Model ----
(***************************************************************************)
(* Model of the COSIPY snow/ice column initialisation (cpkernel/init.py)   *)
(* and of the surface albedo parameterisations (modules/albedo.py).        *)
(*                                                                         *)
(* Numbers.  The program computes in IEEE doubles; the model computes in   *)
(* fixed point:                                                            *)
(*   albedo, weights, exp()   units of 1/SCALE                             *)
(*   heights                  millimetres                                  *)
(*   timestamps               seconds                                      *)
(*   hours since snowfall     units of 1/HourScale hour                    *)
(*   temperatures             centikelvin                                  *)
(*   decay timescales t*      centidays                                    *)
(* A real division is a floor division on the scaled integers.             *)
(***************************************************************************)
EXTENDS Integers, Sequences, FiniteSets, TLC

VARIABLES
    albedo_method,                  \* constants.albedo_method
    use_debris,                     \* config.use_debris
    initial_glacier_height,         \* constants.initial_glacier_height [mm]
    initial_glacier_layer_heights,  \* constants.initial_glacier_layer_heights [mm]
    GRID,                           \* the Grid object, or NoGrid before construction
    albedo_snow,                    \* running snow albedo the driver threads through updateAlbedo
    pc,                             \* position of the driver
    t,                              \* timesteps completed
    DATA,                           \* forcing record handed to init_snowpack
    ret,                            \* what the last call of updateAlbedo did
    props,                          \* what the last call of get_surface_properties did
    hist,                           \* hours-since-snowfall of the helper calls in a run
                                    \* that began with old_snow_timestamp = 0, no snowfall since
    GRID_RESTART,                   \* restart snapshot handed to load_snowpack
    events,                         \* what the process has emitted, and its exit
    before,                         \* the grid as init_debris_pack received it
    node                            \* a Node constructed on its own

vars == << albedo_method, use_debris, initial_glacier_height,
           initial_glacier_layer_heights, GRID, albedo_snow, pc, t, DATA,
           ret, props, hist, GRID_RESTART, events, before, node >>

-----------------------------------------------------------------------------
(* Bounds of the model *)

MaxSteps == 2          \* timesteps the driver runs
MaxLayers == 3         \* layers a grid of the albedo driver holds at most
MaxSnowfall == 1       \* distinct snowfall amounts of a timestep
MaxGlacierLayers == 3  \* ice layers of the configured glacier, at most
MaxRestartLayers == 2  \* layers a restart snapshot states, at most

-----------------------------------------------------------------------------
(* Fixed-point scales *)

SCALE == 100 * 100

HourScale == 10 * 10

-----------------------------------------------------------------------------
(* constants.py: the read-only configuration *)

albedo_fresh_snow == 8500               \* 0.85
albedo_firn == 5500                     \* 0.55
albedo_ice == 3000                      \* 0.30
albedo_debris == 1500                   \* 0.15
albedo_mod_snow_aging == 6              \* days
albedo_mod_snow_depth == 3              \* cm
snow_ice_threshold == 900               \* kg m^-3
ice_density == 917                      \* kg m^-3
dt == 3600                              \* s
zero_temperature == 27316               \* 273.16 K
temperature_bottom == 27016             \* 270.16 K
t_star_wet == 1000                      \* 10 days
t_star_dry == 3000                      \* 30 days
t_star_K == 7                           \* days K^-1
t_star_cutoff == 26317                  \* 263.17 K
critical_snowpack_thickness == 100      \* 0.1 m
lejeune_weighting_coefficient == 1
initial_snowheight_constant == 200      \* 0.2 m
initial_top_density_snowpack == 300     \* kg m^-3
initial_bottom_density_snowpack == 600  \* kg m^-3
debris_thickness == 150                 \* 0.15 m
debris_density == 2840                  \* kg m^-3
air_density == 11                       \* 1.1 kg m^-3, in units of 0.1

albedo_allowed == {"Oerlemans98", "Bougamont05", "Lejeune13"}

-----------------------------------------------------------------------------
(* Arithmetic *)

Min(a, b) == IF a <= b THEN a ELSE b

Max(a, b) == IF a >= b THEN a ELSE b

RECURSIVE SumHeights(_)
SumHeights(s) == IF s = << >> THEN 0 ELSE Head(s).height + SumHeights(Tail(s))

\* np.exp(-(num/den)) for num >= 0, den > 0, in units of 1/SCALE:
\* (1 - x/16)^16 by four squarings, 0 once x >= 16.
ExpSquare(v) == (v * v) \div SCALE

exp_neg(num, den) ==
    LET x == (num * SCALE) \div den
        v == Max(0, SCALE - (x \div 16))
    IN  ExpSquare(ExpSquare(ExpSquare(ExpSquare(v))))

\* base ** n on fixed-point base, n a natural number
RECURSIVE power(_, _)
power(base, n) == IF n = 0 THEN SCALE ELSE (base * power(base, n - 1)) \div SCALE

-----------------------------------------------------------------------------
(* Grid: the part of cpkernel/grid.py the modelled code calls *)

NoGrid == [layers |-> << >>, new_snow_height |-> 0, new_snow_timestamp |-> 0,
           old_snow_timestamp |-> 0, built |-> FALSE]

\* an optional argument: None, or a value
None == [given |-> FALSE, value |-> 0]

Some(v) == [given |-> TRUE, value |-> v]

\* not-a-number, as an entry of an array of temperatures
NaN == 0 - 1

isnan(x) == x = NaN

\* the ice fraction of a bulk snow density [1/SCALE]:
\* (density - (1 - density / ice_density) * air_density) / ice_density
\* with the weight of the air and a in g m^-3
IceFractionOf(snow_density) ==
    LET air == ((ice_density - snow_density) * air_density * 100) \div ice_density
        a == snow_density * 1000 - air
    IN  (a * (SCALE \div 1000)) \div ice_density

\* a Node that takes an ice fraction of 0.0 for none
NewNode_falsy(height, snow_density, temperature, liquid_water_content, ice_fraction, ntype) ==
    [height |-> height, density |-> snow_density, temperature |-> temperature,
     liquid_water_content |-> liquid_water_content, ntype |-> ntype,
     ice_fraction |-> IF ice_fraction.given /\ ice_fraction.value # 0
                      THEN ice_fraction.value
                      ELSE IceFractionOf(snow_density)]

\* Node(height, snow_density, temperature, liquid_water_content, ice_fraction)
\* of type ntype: the ice fraction is the one given, or the snow density's
NewNode(height, snow_density, temperature, liquid_water_content, ice_fraction, ntype) ==
    [height |-> height, density |-> snow_density, temperature |-> temperature,
     liquid_water_content |-> liquid_water_content, ntype |-> ntype,
     ice_fraction |-> IF ice_fraction.given
                      THEN ice_fraction.value
                      ELSE IceFractionOf(snow_density)]

get_layer_ice_fraction(n) == n.ice_fraction

\* Grid(layer_heights, layer_densities, layer_T, layer_liquid_water, None, None, None, None):
\* one node per array entry, type 0 (snow/ice); absent trackers start at 0.
Node(height, density, temperature, liquid_water_content, ntype) ==
    NewNode(height, density, temperature, liquid_water_content, None, ntype)

Grid(layers, new_snow_height, new_snow_timestamp, old_snow_timestamp) ==
    [layers |-> layers, new_snow_height |-> new_snow_height,
     new_snow_timestamp |-> new_snow_timestamp,
     old_snow_timestamp |-> old_snow_timestamp, built |-> TRUE]

\* Grid(layer_heights, layer_densities, layer_temperatures,
\*      layer_liquid_water_content, layer_ice_fraction, new_snow_height,
\*      new_snow_timestamp, old_snow_timestamp): one node per entry of layer_heights
GridOfArrays(heights, densities, temperatures, lwc, ice_fractions, nsh, nst, ost) ==
    Grid([i \in 1..Len(heights) |->
             NewNode(heights[i], densities[i], temperatures[i], lwc[i],
                     Some(ice_fractions[i]), 0)],
         nsh, nst, ost)

get_node_temperature(G, idx) == G.layers[idx + 1].temperature

\* a new top layer of debris; the fresh-snow trackers stay
add_fresh_debris(G, height, density, temperature, liquid_water_content) ==
    [G EXCEPT !.layers = << NewNode(height, density, temperature, liquid_water_content, None, 1) >>
                         \o G.layers]

get_fresh_snow_props(G) ==
    << G.new_snow_height, G.new_snow_timestamp, G.old_snow_timestamp >>

\* the fresh snow is gone: the trackers fall back to the older snow's age
set_fresh_snow_props_to_old_props(G) ==
    [G EXCEPT !.new_snow_height = 0, !.new_snow_timestamp = G.old_snow_timestamp]

set_fresh_snow_props_update_time(G, seconds) ==
    [G EXCEPT !.old_snow_timestamp = G.old_snow_timestamp + seconds,
              !.new_snow_timestamp = G.new_snow_timestamp + seconds]

set_fresh_snow_props_height(G, height) == [G EXCEPT !.new_snow_height = height]

\* a new top layer; the fresh-snow trackers restart at the added snow and the
\* older snow's timestamp ages by the elapsed step
add_fresh_snow(G, height, density, temperature, liquid_water_content) ==
    [G EXCEPT !.layers = << Node(height, density, temperature, liquid_water_content, 0) >> \o G.layers,
              !.new_snow_height = height,
              !.new_snow_timestamp = 0,
              !.old_snow_timestamp = G.old_snow_timestamp + dt]

remove_layer(G, idx) ==
    [G EXCEPT !.layers = SubSeq(G.layers, 1, idx) \o SubSeq(G.layers, idx + 2, Len(G.layers))]

get_node_density(G, idx) == G.layers[idx + 1].density

get_node_ntype(G, idx) == G.layers[idx + 1].ntype

\* the heights of the snow layers (density <= snow/ice threshold) from the
\* surface down to the first layer that is not snow
RECURSIVE SnowRun(_)
SnowRun(s) ==
    IF s = << >> \/ Head(s).ntype # 0 \/ Head(s).density > snow_ice_threshold
    THEN 0
    ELSE Head(s).height + SnowRun(Tail(s))

get_total_snowheight(G) == SnowRun(G.layers)

get_total_height(G) == SumHeights(G.layers)

-----------------------------------------------------------------------------
(* modules/albedo.py *)

\* hours_since_snowfall = fresh_snow_timestamp / 3600.0
HoursOf(timestamp) == (timestamp * HourScale) \div 3600

\* no call of get_surface_properties
NoProps == [called |-> FALSE, GRID |-> NoGrid, fresh_snow_height |-> 0,
            fresh_snow_timestamp |-> 0, hours_since_snowfall |-> 0]

\* get_surface_properties with the fallback taken whatever the fresh snow is
get_surface_properties_unguarded(G) ==
    LET G2 == set_fresh_snow_props_to_old_props(G)
        old == get_fresh_snow_props(G2)
    IN  [called |-> TRUE, GRID |-> G2,
         fresh_snow_height |-> old[1],
         fresh_snow_timestamp |-> old[2],
         hours_since_snowfall |-> HoursOf(old[2])]

\* get_surface_properties with | for & in the fallback's condition
get_surface_properties_or(G) ==
    LET fresh == get_fresh_snow_props(G)
    IN  IF (HoursOf(fresh[2]) < albedo_mod_snow_aging * 24 * HourScale)
           \/ (fresh[1] <= 0)
        THEN get_surface_properties_unguarded(G)
        ELSE [called |-> TRUE, GRID |-> G,
              fresh_snow_height |-> fresh[1],
              fresh_snow_timestamp |-> fresh[2],
              hours_since_snowfall |-> HoursOf(fresh[2])]

\* get_surface_properties with the fallback's hours taken from the fresh-snow
\* height, the wrong element of the tuple
get_surface_properties_wrong_element(G) ==
    LET fresh == get_fresh_snow_props(G)
    IN  IF (HoursOf(fresh[2]) < albedo_mod_snow_aging * 24 * HourScale)
           /\ (fresh[1] <= 0)
        THEN LET G2 == set_fresh_snow_props_to_old_props(G)
                 old == get_fresh_snow_props(G2)
             IN  [called |-> TRUE, GRID |-> G2,
                  fresh_snow_height |-> old[1],
                  fresh_snow_timestamp |-> old[2],
                  hours_since_snowfall |-> HoursOf(old[1])]
        ELSE [called |-> TRUE, GRID |-> G,
              fresh_snow_height |-> fresh[1],
              fresh_snow_timestamp |-> fresh[2],
              hours_since_snowfall |-> HoursOf(fresh[2])]

get_surface_properties(G) ==
    LET fresh == get_fresh_snow_props(G)
        hours_since_snowfall == HoursOf(fresh[2])
    IN  IF (hours_since_snowfall < albedo_mod_snow_aging * 24 * HourScale)
           /\ (fresh[1] <= 0)
        THEN LET G2 == set_fresh_snow_props_to_old_props(G)
                 old == get_fresh_snow_props(G2)
             IN  [called |-> TRUE, GRID |-> G2,
                  fresh_snow_height |-> old[1],
                  fresh_snow_timestamp |-> old[2],
                  hours_since_snowfall |-> HoursOf(old[2])]
        ELSE [called |-> TRUE, GRID |-> G,
              fresh_snow_height |-> fresh[1],
              fresh_snow_timestamp |-> fresh[2],
              hours_since_snowfall |-> hours_since_snowfall]

\* elapsed_time in units of 1/HourScale hour
get_simple_albedo(elapsed_time) ==
    albedo_firn
    + ((albedo_fresh_snow - albedo_firn)
       * exp_neg(elapsed_time, albedo_mod_snow_aging * 24 * HourScale)) \div SCALE

\* the modulation of a snow albedo toward the ice albedo with snow depth h [mm]:
\* alphaSnow + (albedo_ice - alphaSnow) * exp(-h / (albedo_mod_snow_depth / 100))
DepthModulated(alphaSnow, h) ==
    alphaSnow
    + ((albedo_ice - alphaSnow) * exp_neg(h, albedo_mod_snow_depth * 10)) \div SCALE

\* method_Oerlemans with < for <= in the snow/ice test
method_Oerlemans_strict(G) ==
    LET sp == get_surface_properties(G)
        G2 == sp.GRID
    IN  IF get_node_density(G2, 0) < snow_ice_threshold
        THEN [GRID |-> G2, props |-> sp,
              alphaMod |-> DepthModulated(get_simple_albedo(sp.hours_since_snowfall),
                                          get_total_snowheight(G2))]
        ELSE [GRID |-> G2, props |-> sp, alphaMod |-> albedo_ice]

method_Oerlemans(G) ==
    LET sp == get_surface_properties(G)
        G2 == sp.GRID
    IN  IF get_node_density(G2, 0) <= snow_ice_threshold
        THEN [GRID |-> G2, props |-> sp,
              alphaMod |-> DepthModulated(get_simple_albedo(sp.hours_since_snowfall),
                                          get_total_snowheight(G2))]
        ELSE [GRID |-> G2, props |-> sp, alphaMod |-> albedo_ice]

\* t* [centidays] for a surface temperature [cK]
t_star_of(surface_temperature) ==
    IF surface_temperature >= zero_temperature
    THEN t_star_wet
    ELSE IF surface_temperature < t_star_cutoff
         THEN t_star_dry + (zero_temperature - t_star_cutoff) * t_star_K
         ELSE t_star_dry + (zero_temperature - surface_temperature) * t_star_K

\* the decay step with the sign of its change turned
BougamontDecay_away(a, surface_temperature) ==
    a + ((a - albedo_firn) * (dt \div 36)) \div (t_star_of(surface_temperature) * 24)

\* albedo_snow - (albedo_snow - albedo_firn) / t_star * dt_days, dt_days = dt / 86400
BougamontDecay(a, surface_temperature) ==
    a - ((a - albedo_firn) * (dt \div 36)) \div (t_star_of(surface_temperature) * 24)

\* method_Bougamont with the reset before the decay step
method_Bougamont_reset_first(G, surface_temperature, a) ==
    LET fresh == get_fresh_snow_props(G)
        h == get_total_snowheight(G)
    IN  IF get_node_density(G, 0) <= snow_ice_threshold
        THEN LET a1 == IF HoursOf(fresh[2]) = 0 THEN albedo_fresh_snow ELSE a
                 a2 == BougamontDecay(a1, surface_temperature)
             IN  [alphaMod |-> DepthModulated(a2, h), albedo_snow |-> a2]
        ELSE [alphaMod |-> albedo_ice, albedo_snow |-> a]

\* method_Bougamont with the decay step ahead of the snow/ice test
method_Bougamont_decay_always(G, surface_temperature, a) ==
    LET fresh == get_fresh_snow_props(G)
        h == get_total_snowheight(G)
        decayed == BougamontDecay(a, surface_temperature)
    IN  IF get_node_density(G, 0) <= snow_ice_threshold
        THEN LET a2 == IF HoursOf(fresh[2]) = 0 THEN albedo_fresh_snow ELSE decayed
             IN  [alphaMod |-> DepthModulated(a2, h), albedo_snow |-> a2]
        ELSE [alphaMod |-> albedo_ice, albedo_snow |-> decayed]

method_Bougamont(G, surface_temperature, a) ==
    LET fresh == get_fresh_snow_props(G)
        hours_since_snowfall == HoursOf(fresh[2])
        h == get_total_snowheight(G)
    IN  IF get_node_density(G, 0) <= snow_ice_threshold
        THEN LET decayed == BougamontDecay(a, surface_temperature)
                 a2 == IF hours_since_snowfall = 0 THEN albedo_fresh_snow ELSE decayed
             IN  [alphaMod |-> DepthModulated(a2, h), albedo_snow |-> a2]
        ELSE [alphaMod |-> albedo_ice, albedo_snow |-> a]

\* snow_depth [mm]; the weight in units of 1/SCALE
get_albedo_weight_lejeune(snow_depth) ==
    Min(SCALE,
        power((snow_depth * SCALE) \div critical_snowpack_thickness,
              lejeune_weighting_coefficient))

\* method_lejeune with the two weights of the blend exchanged
method_lejeune_swapped(G) ==
    IF get_node_ntype(G, 0) = 0
    THEN LET sp == get_surface_properties(G)
             albedo_weight == get_albedo_weight_lejeune(sp.fresh_snow_height)
             snow == get_simple_albedo(sp.hours_since_snowfall)
         IN  [GRID |-> sp.GRID, props |-> sp,
              alphaMod |-> (albedo_weight * albedo_debris
                            + (SCALE - albedo_weight) * snow) \div SCALE]
    ELSE [GRID |-> G, props |-> NoProps, alphaMod |-> albedo_debris]

method_lejeune(G) ==
    IF get_node_ntype(G, 0) = 0
    THEN LET sp == get_surface_properties(G)
             albedo_weight == get_albedo_weight_lejeune(sp.fresh_snow_height)
             snow == get_simple_albedo(sp.hours_since_snowfall)
         IN  [GRID |-> sp.GRID, props |-> sp,
              alphaMod |-> (albedo_weight * snow
                            + (SCALE - albedo_weight) * albedo_debris) \div SCALE]
    ELSE [GRID |-> G, props |-> NoProps, alphaMod |-> albedo_debris]

\* what updateAlbedo returns from a method's result r
Returned(r, a) ==
    [kind |-> "returned", alphaMod |-> r.alphaMod, albedo_snow |-> a,
     GRID |-> r.GRID, props |-> r.props]

Raised(G, a) ==
    [kind |-> "ValueError", alphaMod |-> 0, albedo_snow |-> a, GRID |-> G, props |-> NoProps]

\* updateAlbedo with the configured method tested before the debris mode
updateAlbedo_method_first(G, surface_temperature, a) ==
    IF albedo_method = "Oerlemans98"
    THEN Returned(method_Oerlemans(G), a)
    ELSE IF albedo_method = "Bougamont05"
    THEN LET r == method_Bougamont(G, surface_temperature, a)
         IN  Returned([alphaMod |-> r.alphaMod, GRID |-> G, props |-> NoProps], r.albedo_snow)
    ELSE IF use_debris \/ albedo_method = "Lejeune13"
    THEN Returned(method_lejeune(G), a)
    ELSE Raised(G, a)

\* updateAlbedo with a default method in place of the error
updateAlbedo_default(G, surface_temperature, a) ==
    IF use_debris \/ albedo_method = "Lejeune13"
    THEN Returned(method_lejeune(G), a)
    ELSE IF albedo_method = "Bougamont05"
    THEN LET r == method_Bougamont(G, surface_temperature, a)
         IN  Returned([alphaMod |-> r.alphaMod, GRID |-> G, props |-> NoProps], r.albedo_snow)
    ELSE Returned(method_Oerlemans(G), a)

\* The outcome of updateAlbedo(GRID, surface_temperature, albedo_snow): the
\* returned pair, or the ValueError raised, with the grid as the call leaves it
\* and what get_surface_properties returned when the method called it.
updateAlbedo(G, surface_temperature, a) ==
    IF use_debris \/ albedo_method = "Lejeune13"
    THEN Returned(method_lejeune(G), a)
    ELSE IF albedo_method = "Oerlemans98"
    THEN Returned(method_Oerlemans(G), a)
    ELSE IF albedo_method = "Bougamont05"
    THEN LET r == method_Bougamont(G, surface_temperature, a)
         IN  Returned([alphaMod |-> r.alphaMod, GRID |-> G, props |-> NoProps], r.albedo_snow)
    ELSE Raised(G, a)

-----------------------------------------------------------------------------
(* cpkernel/init.py *)

\* int(min(initial_snowheight / optimal_height, 5)), optimal_height = 0.1 m, in
\* doubles: 0.3 / 0.1 is 2.9999999999999996, the one height of a whole number
\* of millimetres whose quotient falls below the exact one's floor.
SnowLayerCount(initial_snowheight) ==
    IF initial_snowheight = 300 THEN 2 ELSE Min(initial_snowheight \div 100, 5)

\* int(initial_glacier_height / initial_glacier_layer_heights)
GlacierLayerCount(glacier_height, glacier_layer_heights) ==
    glacier_height \div glacier_layer_heights

\* InitialSnowheight with the configured default for a not-a-number height too
InitialSnowheight_nan_default(D) ==
    IF D.has_SNOWHEIGHT /\ ~D.SNOWHEIGHT_isnan
    THEN D.SNOWHEIGHT
    ELSE initial_snowheight_constant

\* the initial snow height init_snowpack works with [mm]
InitialSnowheight(D) ==
    IF D.has_SNOWHEIGHT
    THEN (IF D.SNOWHEIGHT_isnan THEN 0 ELSE D.SNOWHEIGHT)
    ELSE initial_snowheight_constant

\* the snow section: the four arrays as one sequence of nodes
SnowSection(h, temperature_top, glacier_height) ==
    LET nlayers == SnowLayerCount(h)
        span == temperature_top - temperature_bottom   \* dT = span / (h + glacier_height)
    IN  IF nlayers = 0
        THEN << Node(h, initial_top_density_snowpack, temperature_top, 0, 0) >>
        ELSE [i \in 1..nlayers |->
                Node(h \div nlayers,
                     initial_top_density_snowpack
                     - ((initial_top_density_snowpack - initial_bottom_density_snowpack)
                        * h * i) \div (h * nlayers),
                     temperature_top - (span * h * i) \div (nlayers * (h + glacier_height)),
                     0, 0)]

\* the glacier section below a column whose last temperature is last_T
GlacierSection(last_T, span, column_height, glacier_height, glacier_layer_heights) ==
    [i \in 1..GlacierLayerCount(glacier_height, glacier_layer_heights) |->
        Node(glacier_layer_heights, ice_density,
             last_T - (span * glacier_layer_heights * i) \div column_height,
             0, 0)]

\* init_snowpack with >= for > in the test for snow
init_snowpack_ge(D, glacier_height, glacier_layer_heights) ==
    LET initial_snowheight == InitialSnowheight(D)
        temperature_top == Min(D.T2, 27316)
        span == temperature_top - temperature_bottom
    IN  IF initial_snowheight >= 0
        THEN LET snow == SnowSection(initial_snowheight, temperature_top, glacier_height)
             IN  Grid(snow \o GlacierSection(snow[Len(snow)].temperature, span,
                                             initial_snowheight + glacier_height,
                                             glacier_height, glacier_layer_heights),
                      0, 0, 0)
        ELSE Grid(GlacierSection(temperature_top, span, glacier_height,
                                 glacier_height, glacier_layer_heights),
                  0, 0, 0)

init_snowpack(D, glacier_height, glacier_layer_heights) ==
    LET initial_snowheight == InitialSnowheight(D)
        temperature_top == Min(D.T2, 27316)
        span == temperature_top - temperature_bottom
    IN  IF initial_snowheight > 0
        THEN LET snow == SnowSection(initial_snowheight, temperature_top, glacier_height)
             IN  Grid(snow \o GlacierSection(snow[Len(snow)].temperature, span,
                                             initial_snowheight + glacier_height,
                                             glacier_height, glacier_layer_heights),
                      0, 0, 0)
        ELSE Grid(GlacierSection(temperature_top, span, glacier_height,
                                 glacier_height, glacier_layer_heights),
                  0, 0, 0)

\* array[0:num_layers]
Slice(array, num_layers) == SubSeq(array, 1, Min(num_layers, Len(array)))

\* np.isnan(layer_T).any()
AnyNaN(layer_T) == \E i \in 1..Len(layer_T) : isnan(layer_T[i])

\* the grid load_snowpack builds before it looks at the temperatures
RestartGrid(S, layer_heights, layer_density, layer_T, layer_LWC, layer_IF) ==
    GridOfArrays(layer_heights, layer_density, layer_T, layer_LWC, layer_IF,
                 S.new_snow_height, S.new_snow_timestamp, S.old_snow_timestamp)

\* what load_snowpack does: the grid it returns, or the grid's state on the
\* screen and the exit with status 1
LoadOutcome(G, layer_T) ==
    IF AnyNaN(layer_T)
    THEN [kind |-> "exit", GRID |-> NoGrid, events |-> << "grid_info_screen", "sys.exit(1)" >>]
    ELSE [kind |-> "returned", GRID |-> G, events |-> << >>]

\* load_snowpack with the arrays of the snapshot taken whole
load_snowpack_whole(S) ==
    LoadOutcome(RestartGrid(S, S.LAYER_HEIGHT, S.LAYER_RHO, S.LAYER_T, S.LAYER_LWC, S.LAYER_IF),
                S.LAYER_T)

\* load_snowpack with .all() for .any()
load_snowpack_all(S) ==
    LET layer_T == Slice(S.LAYER_T, S.NLAYERS)
        G == RestartGrid(S, Slice(S.LAYER_HEIGHT, S.NLAYERS), Slice(S.LAYER_RHO, S.NLAYERS),
                         layer_T, Slice(S.LAYER_LWC, S.NLAYERS), Slice(S.LAYER_IF, S.NLAYERS))
    IN  IF \A i \in 1..Len(layer_T) : isnan(layer_T[i])
        THEN [kind |-> "exit", GRID |-> NoGrid, events |-> << "grid_info_screen", "sys.exit(1)" >>]
        ELSE [kind |-> "returned", GRID |-> G, events |-> << >>]

load_snowpack(S) ==
    LET num_layers == S.NLAYERS
        layer_heights == Slice(S.LAYER_HEIGHT, num_layers)
        layer_density == Slice(S.LAYER_RHO, num_layers)
        layer_T == Slice(S.LAYER_T, num_layers)
        layer_LWC == Slice(S.LAYER_LWC, num_layers)
        layer_IF == Slice(S.LAYER_IF, num_layers)
    IN  LoadOutcome(RestartGrid(S, layer_heights, layer_density, layer_T, layer_LWC, layer_IF),
                    layer_T)

\* init_debris_pack without the cap of the temperature
init_debris_pack_uncapped(grid) ==
    add_fresh_debris(grid, debris_thickness, debris_density,
                     get_node_temperature(grid, 0), 0)

init_debris_pack(grid) ==
    LET temperature_top == Min(get_node_temperature(grid, 0), zero_temperature)
    IN  add_fresh_debris(grid, debris_thickness, debris_density, temperature_top, 0)

-----------------------------------------------------------------------------
(* The states the albedo routines are called in *)

NoData == [has_SNOWHEIGHT |-> FALSE, SNOWHEIGHT_isnan |-> FALSE, SNOWHEIGHT |-> 0, T2 |-> 0]

NoRet == [kind |-> "none", alphaMod |-> 0, albedo_snow |-> 0,
          pre |-> NoGrid, post |-> NoGrid, surface_temperature |-> 0, albedo_snow_in |-> 0]

NoHist == [on |-> FALSE, hours |-> << >>]

NoRestart == [NLAYERS |-> 0, LAYER_HEIGHT |-> << >>, LAYER_RHO |-> << >>, LAYER_T |-> << >>,
              LAYER_LWC |-> << >>, LAYER_IF |-> << >>, new_snow_height |-> 0,
              new_snow_timestamp |-> 0, old_snow_timestamp |-> 0]

NoNode == [made |-> FALSE, snow_density |-> 0, ice_fraction |-> None,
           node |-> [height |-> 0, density |-> 0, temperature |-> 0,
                     liquid_water_content |-> 0, ntype |-> 0, ice_fraction |-> 0]]

\* the end of the ageing window [s]
AgeingWindow == albedo_mod_snow_aging * 24 * 3600

\* method selectors: the three allowed ones and two that are not
Selectors == albedo_allowed \cup {"Brock00", "oerlemans98"}

\* surface layers: snow, snow at the snow/ice threshold, ice just above it,
\* glacier ice, debris
TopNodes ==
    { Node(100, 250, 27000, 0, 0),
      Node(100, snow_ice_threshold, 27000, 0, 0),
      Node(100, snow_ice_threshold + 1, 27000, 0, 0),
      Node(500, ice_density, 27000, 0, 0),
      Node(debris_thickness, debris_density, 27000, 0, 1) }

LowerNodes == { Node(200, 400, 27100, 0, 0), Node(500, ice_density, 27100, 0, 0) }

InitialLayers ==
    { << top >> : top \in TopNodes }
    \cup { << top, low >> : top \in TopNodes, low \in LowerNodes }

\* the fresh snow never is older than the snow below it
InitialTrackers ==
    { tr \in [new_snow_height : {-10, 0, 50},
              new_snow_timestamp : {0, dt, AgeingWindow - dt, AgeingWindow},
              old_snow_timestamp : {0, dt, AgeingWindow - dt, AgeingWindow, AgeingWindow + dt}] :
        /\ tr.old_snow_timestamp >= tr.new_snow_timestamp
        /\ tr.old_snow_timestamp - tr.new_snow_timestamp <= dt }

\* surface temperatures [cK]: melting, dry and warmer than the cutoff, colder
SurfaceTemperatures == { zero_temperature, 27000, 26000 }

Snowfalls == { 50 * k : k \in 1..MaxSnowfall }

\* the albedo_snow the first call is handed: the running value only matters
\* to Bougamont05
StartAlbedos == {albedo_firn, (albedo_firn + albedo_fresh_snow) \div 2, albedo_fresh_snow}

Init ==
    /\ albedo_method \in Selectors
    /\ use_debris \in BOOLEAN
    /\ initial_glacier_height = 1000
    /\ initial_glacier_layer_heights = 500
    /\ \E layers \in InitialLayers, tr \in InitialTrackers :
          GRID = Grid(layers, tr.new_snow_height, tr.new_snow_timestamp,
                      tr.old_snow_timestamp)
    /\ albedo_snow \in StartAlbedos
    /\ albedo_snow # albedo_fresh_snow => (albedo_method = "Bougamont05" /\ ~use_debris)
    /\ pc = "forcing"
    /\ t = 0
    /\ DATA = NoData
    /\ ret = NoRet
    /\ props = NoProps
    /\ hist = [on |-> (GRID.old_snow_timestamp = 0), hours |-> << >>]
    /\ GRID_RESTART = NoRestart
    /\ events = << >>
    /\ before = NoGrid
    /\ node = NoNode

config == << albedo_method, use_debris, initial_glacier_height,
             initial_glacier_layer_heights, DATA, GRID_RESTART, events, before, node >>

\* a timestep with snowfall: the driver adds the fresh snow
Snowfall ==
    /\ pc = "forcing"
    /\ t < MaxSteps
    /\ Len(GRID.layers) < MaxLayers
    /\ \E height \in Snowfalls :
          GRID' = add_fresh_snow(GRID, height, 250, 27000, 0)
    /\ pc' = "solver"
    /\ ret' = NoRet
    /\ props' = NoProps
    /\ hist' = NoHist
    /\ UNCHANGED << config, albedo_snow, t >>

\* a timestep without snowfall: the trackers age by the step
NoSnowfall ==
    /\ pc = "forcing"
    /\ t < MaxSteps
    /\ GRID' = set_fresh_snow_props_update_time(GRID, dt)
    /\ pc' = "solver"
    /\ ret' = NoRet
    /\ props' = NoProps
    /\ UNCHANGED << config, albedo_snow, t, hist >>

\* the solver's melt: the fresh snow may shrink, down to nothing or below
Solver ==
    /\ pc = "solver"
    /\ \E height \in {GRID.new_snow_height, 0, -10} :
          /\ height <= GRID.new_snow_height
          /\ GRID' = set_fresh_snow_props_height(GRID, height)
    /\ pc' = "albedo"
    /\ UNCHANGED << config, albedo_snow, t, ret, props, hist >>

\* the solver's melt takes the whole surface layer
SolverRemovesLayer ==
    /\ pc = "solver"
    /\ Len(GRID.layers) > 1
    /\ GRID' = set_fresh_snow_props_height(remove_layer(GRID, 0), Min(GRID.new_snow_height, 0))
    /\ pc' = "albedo"
    /\ UNCHANGED << config, albedo_snow, t, ret, props, hist >>

\* alpha, albedo_snow = updateAlbedo(GRID, surface_temperature, albedo_snow);
\* the ValueError ends the run
CallUpdateAlbedo ==
    /\ pc = "albedo"
    /\ \E surface_temperature \in SurfaceTemperatures :
          LET r == updateAlbedo(GRID, surface_temperature, albedo_snow)
          IN  /\ ret' = [kind |-> r.kind, alphaMod |-> r.alphaMod,
                         albedo_snow |-> r.albedo_snow, pre |-> GRID, post |-> r.GRID,
                         surface_temperature |-> surface_temperature,
                         albedo_snow_in |-> albedo_snow]
              /\ GRID' = r.GRID
              /\ albedo_snow' = r.albedo_snow
              /\ props' = [r.props EXCEPT !.GRID = IF r.props.called THEN GRID ELSE NoGrid]
              /\ hist' = IF hist.on /\ r.props.called
                         THEN [hist EXCEPT !.hours = Append(@, r.props.hours_since_snowfall)]
                         ELSE hist
              /\ pc' = IF r.kind = "returned" THEN "forcing" ELSE "failed"
    /\ t' = t + 1
    /\ UNCHANGED config

\* a call of the helper on its own
CallGetSurfaceProperties ==
    /\ pc = "albedo"
    /\ LET sp == get_surface_properties(GRID)
       IN  /\ GRID' = sp.GRID
           /\ props' = [sp EXCEPT !.GRID = GRID]
           /\ hist' = IF hist.on
                      THEN [hist EXCEPT !.hours = Append(@, sp.hours_since_snowfall)]
                      ELSE hist
    /\ pc' = "forcing"
    /\ t' = t + 1
    /\ UNCHANGED << config, albedo_snow, ret >>

Next ==
    \/ Snowfall
    \/ NoSnowfall
    \/ Solver
    \/ SolverRemovesLayer
    \/ CallUpdateAlbedo
    \/ CallGetSurfaceProperties

Spec == Init /\ [][Next]_vars

-----------------------------------------------------------------------------
(* The initialisation of a column from a forcing record *)

\* glacier depths [mm]: whole numbers of the thicker ice layer, and one and a
\* half and two and a half of it, where the layer count truncates
GlacierHeights ==
    { 500 * k : k \in 1..MaxGlacierLayers } \cup { 750, 1250 }

GlacierLayerHeights == { 250, 500 }

\* DATA.SNOWHEIGHT [mm]: absent, not-a-number, or a number
ForcingRecords ==
    { [has_SNOWHEIGHT |-> FALSE, SNOWHEIGHT_isnan |-> FALSE, SNOWHEIGHT |-> 0, T2 |-> T2]
        : T2 \in {26000, 27316, 28000} }
    \cup { [has_SNOWHEIGHT |-> TRUE, SNOWHEIGHT_isnan |-> TRUE, SNOWHEIGHT |-> 0, T2 |-> T2]
        : T2 \in {26000, 27316, 28000} }
    \cup { [has_SNOWHEIGHT |-> TRUE, SNOWHEIGHT_isnan |-> FALSE, SNOWHEIGHT |-> sh, T2 |-> T2]
        : sh \in {-50, 0, 50, 100, 250, 300, 400, 600, 1000}, T2 \in {26000, 27316, 28000} }

InitBoot ==
    /\ albedo_method = "Oerlemans98"
    /\ use_debris \in BOOLEAN
    /\ initial_glacier_height \in GlacierHeights
    /\ initial_glacier_layer_heights \in GlacierLayerHeights
    /\ initial_glacier_layer_heights <= initial_glacier_height
    /\ GRID = NoGrid
    /\ albedo_snow = albedo_fresh_snow
    /\ pc = "boot"
    /\ t = 0
    /\ DATA = NoData
    /\ ret = NoRet
    /\ props = NoProps
    /\ hist = NoHist
    /\ GRID_RESTART = NoRestart
    /\ events = << >>
    /\ before = NoGrid
    /\ node = NoNode

\* temperatures a snapshot holds [cK], not-a-number among them
RestartTemperatures == {27000, 27400, NaN}

\* the fresh-snow trackers a snapshot holds: height [mm], timestamps [s]
RestartTrackers == { << 0, 0, 0 >>, << 50, dt, 2 * dt >> }

\* the snapshots that state n layers in arrays of m entries
SnapshotsOf(n, m) ==
    { [NLAYERS |-> n,
       LAYER_HEIGHT |-> [i \in 1..m |-> 100 * i],
       LAYER_RHO |-> [i \in 1..m |-> Min(300 + 200 * i, ice_density)],
       LAYER_T |-> T,
       LAYER_LWC |-> [i \in 1..m |-> 10 * (i - 1)],
       LAYER_IF |-> [i \in 1..m |-> Min(2000 + 1000 * i, SCALE)],
       new_snow_height |-> tr[1],
       new_snow_timestamp |-> tr[2],
       old_snow_timestamp |-> tr[3]]
        : T \in [1..m -> RestartTemperatures], tr \in RestartTrackers }

\* the snapshots: the arrays hold as many entries as layers are stated, or
\* one more; the ice fractions are not the ones of the densities
RestartSnapshots ==
    UNION { SnapshotsOf(n, n) \cup SnapshotsOf(n, n + 1) : n \in 1..MaxRestartLayers }

\* GRID = init_snowpack(DATA)
CallInitSnowpack ==
    /\ pc = "boot"
    /\ \E D \in ForcingRecords :
          /\ DATA' = D
          /\ GRID' = init_snowpack(D, initial_glacier_height, initial_glacier_layer_heights)
    /\ pc' = "built"
    /\ UNCHANGED << albedo_method, use_debris, initial_glacier_height,
                    initial_glacier_layer_heights, albedo_snow, t, ret, props, hist,
                    GRID_RESTART, events, before, node >>

\* GRID = load_snowpack(GRID_RESTART): the grid, or the exit of the process
CallLoadSnowpack ==
    /\ pc = "boot"
    /\ \E S \in RestartSnapshots :
          LET r == load_snowpack(S)
          IN  /\ GRID_RESTART' = S
              /\ GRID' = r.GRID
              /\ events' = events \o r.events
              /\ pc' = IF r.kind = "returned" THEN "loaded" ELSE "exited"
    /\ UNCHANGED << albedo_method, use_debris, initial_glacier_height,
                    initial_glacier_layer_heights, albedo_snow, t, DATA, ret, props, hist,
                    before, node >>

\* init_debris_pack(GRID), on the grid of either start
CallInitDebrisPack ==
    /\ pc \in {"built", "loaded"}
    /\ before' = GRID
    /\ GRID' = init_debris_pack(GRID)
    /\ pc' = "debris"
    /\ UNCHANGED << albedo_method, use_debris, initial_glacier_height,
                    initial_glacier_layer_heights, albedo_snow, t, DATA, ret, props, hist,
                    GRID_RESTART, events, node >>

NextInit ==
    \/ CallInitSnowpack
    \/ CallLoadSnowpack
    \/ CallInitDebrisPack

SpecInit == InitBoot /\ [][NextInit]_vars

-----------------------------------------------------------------------------
(* A layer constructed on its own *)

\* bulk snow densities [kg m^-3]
NodeDensities == { 100 * k : k \in 1..9 } \cup {ice_density}

\* the ice fraction handed to the constructor: none, 0.0, 0.1, 0.9
NodeIceFractions == {None, Some(0), Some(SCALE \div 10), Some((9 * SCALE) \div 10)}

InitNode ==
    /\ InitBoot
    /\ ~use_debris
    /\ initial_glacier_height = 500
    /\ initial_glacier_layer_heights = 500

\* node = Node(height, snow_density, temperature, liquid_water_content, ice_fraction)
ConstructNode ==
    /\ pc = "boot"
    /\ \E snow_density \in NodeDensities, ice_fraction \in NodeIceFractions,
          temperature \in {27000, zero_temperature}, liquid_water_content \in {0, 2000} :
          node' = [made |-> TRUE, snow_density |-> snow_density,
                   ice_fraction |-> ice_fraction,
                   node |-> NewNode(100, snow_density, temperature,
                                    liquid_water_content, ice_fraction, 0)]
    /\ pc' = "node"
    /\ UNCHANGED << albedo_method, use_debris, initial_glacier_height,
                    initial_glacier_layer_heights, GRID, albedo_snow, t, DATA, ret, props,
                    hist, GRID_RESTART, events, before >>

NextNode ==
    \/ ConstructNode

SpecNode == InitNode /\ [][NextNode]_vars

-----------------------------------------------------------------------------
(* Properties of updateAlbedo and its methods, under Spec *)

Called == ret.kind # "none"

\* the method updateAlbedo runs under the configuration
RunsLejeune == use_debris \/ albedo_method = "Lejeune13"

RunsOerlemans == ~use_debris /\ albedo_method = "Oerlemans98"

RunsBougamont == ~use_debris /\ albedo_method = "Bougamont05"

\* the call of updateAlbedo went through get_surface_properties
HelperRan ==
    \/ RunsOerlemans
    \/ RunsLejeune /\ ret.pre.layers[1].ntype = 0

\* the fresh snow of grid G is gone inside the ageing window
FreshSnowGone(G) ==
    G.new_snow_height <= 0 /\ G.new_snow_timestamp < AgeingWindow

C2_DebrisModeRunsLejeune ==
    (Called /\ RunsLejeune) =>
        /\ ret.kind = "returned"
        /\ ret.alphaMod = method_lejeune(ret.pre).alphaMod
        /\ ret.post = method_lejeune(ret.pre).GRID
        /\ ret.albedo_snow = ret.albedo_snow_in

C2_Witness ==
    /\ ret.kind = "returned"
    /\ use_debris
    /\ albedo_method = "Bougamont05"
    /\ ret.pre.layers[1].ntype = 0
    /\ ret.pre.new_snow_height > 0
    /\ ret.alphaMod # albedo_debris
    /\ ret.alphaMod # method_Bougamont(ret.pre, ret.surface_temperature, ret.albedo_snow_in).alphaMod

\* C3, as claimed: with a method selector that is none of the three allowed,
\* updateAlbedo raises and returns nothing.
C3_InvalidSelectorRaises ==
    (Called /\ albedo_method \notin albedo_allowed) => ret.kind = "ValueError"

\* C3, amended: with debris mode off and a method selector that is none of the
\* three allowed, updateAlbedo raises and returns nothing: the run ends with
\* the grid and the running albedo_snow as they were.
C3_InvalidSelectorRaisesWithoutDebris ==
    (Called /\ ~use_debris /\ albedo_method \notin albedo_allowed) =>
        /\ ret.kind = "ValueError"
        /\ pc = "failed"
        /\ albedo_snow = ret.albedo_snow_in
        /\ GRID = ret.pre

C3_Witness ==
    /\ ret.kind = "ValueError"
    /\ albedo_method = "oerlemans98"
    /\ pc = "failed"

\* the snow surface of method_Bougamont
SnowOnTop(G) == G.layers[1].density <= snow_ice_threshold

\* C4, as claimed: on every grid, Bougamont05 returns the fresh-snow albedo as
\* albedo_snow when no time has passed since the snowfall, and the decayed
\* value otherwise.
C4_ResetOrDecay ==
    (Called /\ RunsBougamont) =>
        IF ret.pre.new_snow_timestamp = 0
        THEN ret.albedo_snow = albedo_fresh_snow
        ELSE ret.albedo_snow = BougamontDecay(ret.albedo_snow_in, ret.surface_temperature)

\* C4, amended: on a grid whose top layer is snow (density <= threshold),
\* Bougamont05 returns the fresh-snow albedo as albedo_snow when no time has
\* passed since the snowfall, whatever albedo_snow was, and otherwise the
\* decayed value, which is not the fresh-snow albedo.
C4_ResetOrDecayOnSnow ==
    (Called /\ RunsBougamont /\ SnowOnTop(ret.pre)) =>
        IF ret.pre.new_snow_timestamp = 0
        THEN ret.albedo_snow = albedo_fresh_snow
        ELSE /\ ret.albedo_snow = BougamontDecay(ret.albedo_snow_in, ret.surface_temperature)
             /\ ret.albedo_snow # albedo_fresh_snow

C4_Witness ==
    /\ ret.kind = "returned"
    /\ RunsBougamont
    /\ SnowOnTop(ret.pre)
    /\ ret.pre.new_snow_timestamp = 0
    /\ ret.albedo_snow_in < albedo_fresh_snow
    /\ ret.albedo_snow = albedo_fresh_snow

\* C5: on a grid whose top layer is denser than the snow/ice threshold,
\* Bougamont05 returns the ice albedo and albedo_snow as it came.
C5_IceKeepsAlbedoSnow ==
    (Called /\ RunsBougamont /\ ~SnowOnTop(ret.pre)) =>
        /\ ret.kind = "returned"
        /\ ret.alphaMod = albedo_ice
        /\ ret.albedo_snow = ret.albedo_snow_in

C5_Witness ==
    /\ ret.kind = "returned"
    /\ RunsBougamont
    /\ ~SnowOnTop(ret.pre)
    /\ ret.albedo_snow_in < albedo_fresh_snow
    /\ ret.albedo_snow = ret.albedo_snow_in

\* C6: get_surface_properties returns the hours of the older snow's timestamp
\* when the fresh snow is gone (height <= 0) inside the ageing window, and in
\* every other case the hours of the fresh snow's timestamp with the fresh
\* snow's height and timestamp as the grid holds them.
C6_FallbackExactlyWhenGone ==
    props.called =>
        IF FreshSnowGone(props.GRID)
        THEN props.hours_since_snowfall = HoursOf(props.GRID.old_snow_timestamp)
        ELSE /\ props.hours_since_snowfall = HoursOf(props.GRID.new_snow_timestamp)
             /\ props.fresh_snow_height = props.GRID.new_snow_height
             /\ props.fresh_snow_timestamp = props.GRID.new_snow_timestamp

C6_Witness ==
    /\ props.called
    /\ FreshSnowGone(props.GRID)
    /\ props.GRID.old_snow_timestamp # props.GRID.new_snow_timestamp
    /\ props.hours_since_snowfall = HoursOf(props.GRID.old_snow_timestamp)

\* C7: from old_snow_timestamp = 0 on and without snowfall, the hours since
\* snowfall that get_surface_properties returns never decrease from one call
\* to the next.
C7_HoursNeverDecrease ==
    hist.on =>
        \A i \in 1..Len(hist.hours) :
            \A j \in i..Len(hist.hours) : hist.hours[i] <= hist.hours[j]

C7_Witness ==
    /\ hist.on
    /\ Len(hist.hours) >= 2
    /\ hist.hours[1] < hist.hours[2]
    /\ props.called
    /\ FreshSnowGone(props.GRID)
    /\ GRID.new_snow_height # props.GRID.new_snow_height

C9_SnowUpToThreshold ==
    (Called /\ RunsOerlemans) =>
        IF ret.pre.layers[1].density > snow_ice_threshold
        THEN ret.alphaMod = albedo_ice
        ELSE ret.alphaMod =
                DepthModulated(get_simple_albedo(props.hours_since_snowfall),
                               get_total_snowheight(ret.pre))

C9_Witness ==
    /\ ret.kind = "returned"
    /\ RunsOerlemans
    /\ ret.pre.layers[1].density = snow_ice_threshold
    /\ ret.alphaMod # albedo_ice

-----------------------------------------------------------------------------
(* Properties of init_snowpack, under SpecInit *)

\* C10: with an initial snow height of 0, init_snowpack builds a column of
\* ice layers only, each of the configured thickness and the ice density, as
\* many as fit the glacier depth: the column is no higher than the glacier
\* depth and less than one layer lower.
C10_IceOnlyColumn ==
    (pc = "built" /\ InitialSnowheight(DATA) = 0) =>
        /\ \A i \in 1..Len(GRID.layers) :
              /\ GRID.layers[i].height = initial_glacier_layer_heights
              /\ GRID.layers[i].density = ice_density
              /\ GRID.layers[i].density > snow_ice_threshold
        /\ Len(GRID.layers) * initial_glacier_layer_heights <= initial_glacier_height
        /\ (Len(GRID.layers) + 1) * initial_glacier_layer_heights > initial_glacier_height
        /\ get_total_height(GRID) = Len(GRID.layers) * initial_glacier_layer_heights
        /\ get_total_snowheight(GRID) = 0

C10_Witness ==
    /\ pc = "built"
    /\ DATA.has_SNOWHEIGHT
    /\ ~DATA.SNOWHEIGHT_isnan
    /\ DATA.SNOWHEIGHT = 0
    /\ Len(GRID.layers) = 2
    /\ get_total_height(GRID) < initial_glacier_height

\* the snow layers of a column: those no denser than the snow/ice threshold
SnowLayers(G) == { i \in 1..Len(G.layers) : G.layers[i].density <= snow_ice_threshold }

\* floor(h / 0.1) for a height h [mm]
TenthsOfMetre(h) == h \div 100

\* C11: with an initial snow height h > 0, init_snowpack builds
\* min(floor(h / 0.1), 5) snow layers of equal height that sum to h, or one
\* layer of height h when that count is 0; the snow layers lie above all ice
\* layers, are never more than 5, and every layer has no liquid water.
C11_SnowSectionLayers ==
    (pc = "built" /\ InitialSnowheight(DATA) > 0) =>
        LET h == InitialSnowheight(DATA)
            snow == SnowLayers(GRID)
            n == Cardinality(snow)
        IN  /\ n = (IF TenthsOfMetre(h) = 0 THEN 1 ELSE Min(TenthsOfMetre(h), 5))
            /\ n <= 5
            /\ \A i \in snow : GRID.layers[i].height * n = h
            /\ \A i \in snow : \A j \in (1..Len(GRID.layers)) \ snow : i < j
            /\ \A i \in 1..Len(GRID.layers) : GRID.layers[i].liquid_water_content = 0

\* C12, as claimed: init_snowpack starts from the configured default snow
\* height when the forcing record has no snow height and when the snow height
\* it has is not a number.
C12_DefaultWhenAbsentOrNaN ==
    (pc = "built" /\ (~DATA.has_SNOWHEIGHT \/ DATA.SNOWHEIGHT_isnan)) =>
        get_total_snowheight(GRID) = initial_snowheight_constant

\* C12, amended: init_snowpack starts from the configured default snow height
\* when the forcing record has no snow height; a snow height that is not a
\* number counts as 0 and gives a column of ice only.
C12_DefaultWhenAbsentZeroWhenNaN ==
    pc = "built" =>
        /\ ~DATA.has_SNOWHEIGHT =>
              get_total_snowheight(GRID) = initial_snowheight_constant
        /\ (DATA.has_SNOWHEIGHT /\ DATA.SNOWHEIGHT_isnan) =>
              /\ get_total_snowheight(GRID) = 0
              /\ SnowLayers(GRID) = {}

C12_Witness ==
    /\ pc = "built"
    /\ DATA.has_SNOWHEIGHT
    /\ DATA.SNOWHEIGHT_isnan
    /\ SnowLayers(GRID) = {}
    /\ Len(GRID.layers) >= 1

\* the depth of the lower edge of layer i [mm]
LowerEdge(G, i) == SumHeights(SubSeq(G.layers, 1, i))

Distance(a, b) == IF a >= b THEN a - b ELSE b - a

\* C13: the layer temperatures of the column init_snowpack builds follow one
\* gradient from the top temperature to the bottom-boundary temperature over
\* the column's height: every layer has the top temperature less the gradient
\* times the depth of its lower edge, and the deepest layer of a glacier of a
\* whole number of ice layers has the bottom-boundary temperature (each up to
\* one unit of the fixed point).
C13_OneLinearGradient ==
    pc = "built" =>
        LET h == Max(InitialSnowheight(DATA), 0)
            top == Min(DATA.T2, zero_temperature)
            column == h + initial_glacier_height
            n == Len(GRID.layers)
        IN  /\ \A i \in 1..n :
                  Distance(GRID.layers[i].temperature,
                           top - ((top - temperature_bottom) * LowerEdge(GRID, i)) \div column) <= 1
            /\ (initial_glacier_height % initial_glacier_layer_heights = 0) =>
                  Distance(GRID.layers[n].temperature, temperature_bottom) <= 1

-----------------------------------------------------------------------------
(* Properties of load_snowpack and init_debris_pack, under SpecInit *)

\* load_snowpack has been called
Restarted == GRID_RESTART.NLAYERS > 0

\* a temperature among the layers the snapshot states is not a number
RetainedNaN(S) == \E i \in 1..S.NLAYERS : isnan(S.LAYER_T[i])

\* C14: load_snowpack on a snapshot with a not-a-number temperature among its
\* retained layers returns no grid: it emits grid_info_screen and then exits
\* with status 1; on a snapshot without one it returns a grid and emits nothing.
C14_NaNTemperatureExits ==
    Restarted =>
        /\ RetainedNaN(GRID_RESTART) =>
              /\ pc = "exited"
              /\ ~GRID.built
              /\ events = << "grid_info_screen", "sys.exit(1)" >>
        /\ ~RetainedNaN(GRID_RESTART) =>
              /\ pc \in {"loaded", "debris"}
              /\ GRID.built
              /\ events = << >>

C14_Witness ==
    /\ pc = "exited"
    /\ GRID_RESTART.NLAYERS = 2
    /\ ~isnan(GRID_RESTART.LAYER_T[1])
    /\ isnan(GRID_RESTART.LAYER_T[2])
    /\ events = << "grid_info_screen", "sys.exit(1)" >>

\* C15: the grid load_snowpack returns has the stated number of layers, layer
\* i made of entry i of the height, density, temperature, liquid water and ice
\* fraction arrays, and the snapshot's three fresh-snow trackers; it exits
\* only for a not-a-number among the temperatures of the stated layers.
C15_ArraysTruncated ==
    LET S == GRID_RESTART
    IN  /\ (Restarted /\ pc = "loaded") =>
              /\ Len(GRID.layers) = S.NLAYERS
              /\ \A i \in 1..S.NLAYERS :
                    /\ GRID.layers[i].height = S.LAYER_HEIGHT[i]
                    /\ GRID.layers[i].density = S.LAYER_RHO[i]
                    /\ GRID.layers[i].temperature = S.LAYER_T[i]
                    /\ GRID.layers[i].liquid_water_content = S.LAYER_LWC[i]
                    /\ GRID.layers[i].ice_fraction = S.LAYER_IF[i]
              /\ GRID.new_snow_height = S.new_snow_height
              /\ GRID.new_snow_timestamp = S.new_snow_timestamp
              /\ GRID.old_snow_timestamp = S.old_snow_timestamp
        /\ (Restarted /\ pc = "exited") => RetainedNaN(S)

C15_Witness ==
    /\ pc = "loaded"
    /\ Len(GRID_RESTART.LAYER_T) > GRID_RESTART.NLAYERS
    /\ isnan(GRID_RESTART.LAYER_T[GRID_RESTART.NLAYERS + 1])
    /\ Len(GRID.layers) = GRID_RESTART.NLAYERS
    /\ GRID.new_snow_height > 0

\* C16: init_debris_pack puts one layer on top of the grid it is given and
\* leaves the layers below as they were; the new layer is debris, of the
\* configured thickness and density, without liquid water, and as warm as the
\* smaller of the previous top temperature and the reference temperature.
C16_OneDebrisLayerOnTop ==
    pc = "debris" =>
        LET top == GRID.layers[1]
            previous == before.layers[1].temperature
        IN  /\ Len(GRID.layers) = Len(before.layers) + 1
            /\ Tail(GRID.layers) = before.layers
            /\ top.ntype = 1
            /\ top.height = debris_thickness
            /\ top.density = debris_density
            /\ top.liquid_water_content = 0
            /\ top.temperature = (IF previous < zero_temperature
                                  THEN previous ELSE zero_temperature)
            /\ \A i \in 2..Len(GRID.layers) : GRID.layers[i].ntype = 0

C16_Witness ==
    /\ pc = "debris"
    /\ before.layers[1].temperature > zero_temperature
    /\ GRID.layers[1].temperature = zero_temperature
    /\ Len(GRID.layers) = Len(before.layers) + 1

-----------------------------------------------------------------------------
(* Properties of a layer, under SpecNode *)

\* (density - (1 - density / ice_density) * air_density) / ice_density [1/SCALE],
\* as 1000 * B / ice_density^2 with B = 10 * density * ice_density
\*                                     - (ice_density - density) * air_density
ConvertedIceFraction(density) ==
    LET B == 10 * density * ice_density - (ice_density - density) * air_density
    IN  (10 * ((100 * B) \div ice_density)) \div ice_density

\* C17: a layer constructed with an ice fraction reports that ice fraction,
\* 0.0 included; a layer constructed without one reports the ice fraction
\* converted from its snow density; the getter returns the attribute.
C17_IceFractionGivenOrConverted ==
    node.made =>
        /\ node.ice_fraction.given =>
              get_layer_ice_fraction(node.node) = node.ice_fraction.value
        /\ ~node.ice_fraction.given =>
              Distance(get_layer_ice_fraction(node.node),
                       ConvertedIceFraction(node.snow_density)) <= 1
        /\ get_layer_ice_fraction(node.node) = node.node.ice_fraction

C17_Witness ==
    /\ node.made
    /\ node.ice_fraction = Some(0)
    /\ node.snow_density = 200
    /\ get_layer_ice_fraction(node.node) = 0
    /\ ConvertedIceFraction(node.snow_density) > 0

-----------------------------------------------------------------------------
(* The running albedo_snow of Bougamont05, under Spec *)

\* C18: with Bougamont05, albedo_snow started between the firn albedo and the
\* fresh-snow albedo stays between them through every sequence of calls, and
\* a decay step without a reset leaves it between the firn albedo and the
\* value it had.
C18_AlbedoSnowBetweenFirnAndFresh ==
    RunsBougamont =>
        /\ albedo_firn <= albedo_snow
        /\ albedo_snow <= albedo_fresh_snow
        /\ (Called /\ SnowOnTop(ret.pre) /\ ret.pre.new_snow_timestamp # 0) =>
              /\ albedo_firn <= ret.albedo_snow
              /\ ret.albedo_snow <= ret.albedo_snow_in

C18_Witness ==
    /\ RunsBougamont
    /\ ret.kind = "returned"
    /\ t = MaxSteps
    /\ SnowOnTop(ret.pre)
    /\ ret.pre.new_snow_timestamp # 0
    /\ ret.albedo_snow_in < albedo_fresh_snow
    /\ albedo_snow < ret.albedo_snow_in
    /\ albedo_firn < albedo_snow

=============================================================================
